---- MODULE Spec2Model ----
(***************************************************************************)
(* Context stacks of quart/ctx.py: AppContext, RequestContext and          *)
(* WebsocketContext, their scoped enter/exit (async with), the reference   *)
(* count of AppContext, after_this_request and the has_*_context           *)
(* accessors.  Every task runs properly nested `async with` blocks; one    *)
(* action is one run-to-await segment of a coroutine of ctx.py.            *)
(* The constructors' route matching and the mapping methods of            *)
(* _AppCtxGlobals touch no stack: each has a specification of its own.     *)
(***************************************************************************)
EXTENDS Integers, Sequences, FiniteSets, TLC

\* ---- bounds of the model ------------------------------------------------
MaxDepth == 2        \* deepest nesting of async-with blocks in one task
MaxOps == 5          \* contexts entered, callbacks registered and failures
                     \* met, by a task running alone
TaskOps == 3         \* the same, by two concurrent tasks together

Tasks == {"t1", "t2"}
Callbacks == {"f", "g"}
Keys == {"user"}
None == "None"

VARIABLES
    pc,                      \* pc[t]: where task t stands
    scope,                   \* scope[t]: the async-with blocks t is inside
    app_ctx_stack,           \* _app_ctx_stack, per task
    request_ctx_stack,       \* _request_ctx_stack, per task
    websocket_ctx_stack,     \* _websocket_ctx_stack, per task
    app_ctx,                 \* the AppContext objects of each task
    g_dict,                  \* __dict__ of every _AppCtxGlobals object
    after_request_functions, \* RequestContext._after_request_functions
    last,                    \* the async-with block t has just left
    error,                   \* the exception that ended task t
    aborted,                 \* t had a RequestContext exit cut short
    ops,                     \* enters, registrations and failures still to come
    request_websocket,       \* the Request and the Websocket objects
    returned                 \* the last call made outside the stacks: what
                             \* went in and what came out

vars == <<pc, scope, app_ctx_stack, request_ctx_stack, websocket_ctx_stack,
          app_ctx, g_dict, after_request_functions, last, error, aborted,
          ops, request_websocket, returned>>

Front(s) == SubSeq(s, 1, Len(s) - 1)

\* ---- TaskLocalStack (quart/local.py, from spec 4.1) ----------------------
Null == 0            \* what top gives for an empty stack
LocalStack_top(s) == IF s = <<>> THEN Null ELSE s[Len(s)]
LocalStack_push(s, x) == Append(s, x)
LocalStack_pop(s) == Front(s)

\* ---- objects ------------------------------------------------------------
Temp == MaxDepth + 1             \* the AppContext made inside __aexit__
CtxIds == 1 .. Temp
EmptyDict == [k \in {} |-> None]

\* (one globals object for every AppContext)
AppContext_init_shared_g(t, i) ==
    [g |-> <<"t1", Temp>>, app_reference_count |-> 0]
\* AppContext.__init__: object i of task t gets a globals object of its own
\* and a count of zero.
AppContext_init(t, i) ==
    [g |-> <<t, i>>, app_reference_count |-> 0]

GObjects == Tasks \X CtxIds

NoFrame == [kind |-> None]

NewFrame(t, kind, id, created, count) ==
    [kind |-> kind, id |-> id, created |-> created, session |-> None,
     exc |-> None,
     \* history of this block, for the properties
     registered |-> <<>>,
     opened |-> "unset", notified |-> 0, steps |-> <<>>, app_at_push |-> <<>>,
     pre_app |-> app_ctx_stack[t], pre_req |-> request_ctx_stack[t],
     pre_ws |-> websocket_ctx_stack[t], pre_count |-> count,
     nested |-> 0, pure |-> TRUE,
     td_app |-> <<>>, td_req |-> <<>>,
     tr_failed |-> FALSE, ta_failed |-> FALSE,
     pop_self |-> Null, pop_count0 |-> 0, pop_stack0 |-> <<>>, pop_td |-> 0,
     raised |-> None]

Depth(t) == Len(scope[t])
Cur(t) == scope[t][Depth(t)]

\* ---- routing at construction ---------------------------------------------
Wrappers == {"request", "websocket"}
Rules == {"index", "chat"}
is_websocket(rule) == rule = "chat"
ViewArgs == {"no_args", "id"}
RoutingFailures == {"NotFound", "MethodNotAllowed", "RedirectRequired"}

\* What url_adapter.match() does: it returns a rule and the view arguments,
\* or it raises.
Matches ==
    [raises : {None}, url_rule : Rules, view_args : ViewArgs]
    \cup [raises : RoutingFailures \cup {"OtherError"},
          url_rule : {None}, view_args : {None}]

\* A Request or Websocket nobody has matched yet.
NewWrapper == [url_rule |-> None, view_args |-> None, routing_exception |-> None]

NoCall == [call |-> None]

\* _BaseRequestWebsocketContext.__init__, line 28.
Base_init(obj) == [obj EXCEPT !.routing_exception = None]

\* (RedirectRequired is not caught)
Base_match_request_redirect_raises(obj, m) ==
    IF m.raises = None
    THEN [obj |-> [obj EXCEPT !.url_rule = m.url_rule,
                              !.view_args = m.view_args],
          raised |-> None]
    ELSE IF m.raises \in {"NotFound", "MethodNotAllowed"}
    THEN [obj |-> [obj EXCEPT !.routing_exception = m.raises], raised |-> None]
    ELSE [obj |-> obj, raised |-> m.raises]
\* _BaseRequestWebsocketContext.match_request, lines 40-43: the object after
\* the call and the exception that leaves it.
Base_match_request(obj, m) ==
    IF m.raises = None
    THEN [obj |-> [obj EXCEPT !.url_rule = m.url_rule,
                              !.view_args = m.view_args],
          raised |-> None]
    ELSE IF m.raises \in {"NotFound", "MethodNotAllowed", "RedirectRequired"}
    THEN [obj |-> [obj EXCEPT !.routing_exception = m.raises], raised |-> None]
    ELSE [obj |-> obj, raised |-> m.raises]

\* WebsocketContext.match_request, lines 103-105.
WebsocketContext_match_request(obj, m) ==
    LET r == Base_match_request(obj, m)
    IN IF r.raised # None THEN r
       ELSE IF r.obj.routing_exception = None /\ ~is_websocket(r.obj.url_rule)
       THEN [r EXCEPT !.obj.routing_exception = "BadRequest"]
       ELSE r

\* ---- accessors ----------------------------------------------------------
has_app_context(t) == LocalStack_top(app_ctx_stack[t]) # Null

\* (a stack that is not local to the task)
has_request_context_any_task(t) ==
    \E u \in Tasks : LocalStack_top(request_ctx_stack[u]) # Null
has_request_context(t) == LocalStack_top(request_ctx_stack[t]) # Null

has_websocket_context(t) == LocalStack_top(websocket_ctx_stack[t]) # Null

\* No task has entered anything yet.
Fresh ==
    /\ scope = [t \in Tasks |-> <<>>]
    /\ app_ctx_stack = [t \in Tasks |-> <<>>]
    /\ request_ctx_stack = [t \in Tasks |-> <<>>]
    /\ websocket_ctx_stack = [t \in Tasks |-> <<>>]
    /\ app_ctx = [t \in Tasks |-> [i \in CtxIds |-> AppContext_init(t, i)]]
    /\ g_dict = [o \in GObjects |-> EmptyDict]
    /\ after_request_functions = [t \in Tasks |-> [i \in 1 .. MaxDepth |-> <<>>]]
    /\ last = [t \in Tasks |-> NoFrame]
    /\ error = [t \in Tasks |-> None]
    /\ aborted = [t \in Tasks |-> FALSE]
    /\ request_websocket = [w \in Wrappers |-> NewWrapper]
    /\ returned = NoCall

\* One task runs alone.
Init ==
    /\ Fresh
    /\ pc = [t \in Tasks |-> IF t = "t1" THEN "body" ELSE "done"]
    /\ ops = MaxOps

\* ---- AppContext ---------------------------------------------------------
\* Quart.app_context() (quart/app.py): a new AppContext of the application.
Quart_app_context(t, i) == AppContext_init(t, i)

\* AppContext.push, lines 138-139, on the task's objects and app stack.
AppContext_push(S, i) ==
    [ctx |-> [S.ctx EXCEPT ![i].app_reference_count = @ + 1],
     stack |-> LocalStack_push(S.stack, i)]

\* (teardown only below zero; teardown only at zero)
RunsTeardown_below_zero(count) == count < 0
RunsTeardown_at_zero(count) == count = 0
\* AppContext.pop, line 145: teardown runs when the count is used up.
RunsTeardown(count) == count <= 0

\* (the pop after the hooks, not in a finally)
PopFinally_not_finally(stack, failed) ==
    IF failed THEN stack ELSE LocalStack_pop(stack)
\* AppContext.pop, lines 147-148: the stack entry goes, hook failed or not.
PopFinally(stack, failed) == LocalStack_pop(stack)

\* ---- leaving an async-with block ----------------------------------------
\* __aexit__ of the innermost block has returned (raised = the body's
\* exception, which a None result does not suppress) or has raised.
Leave(t, fr, raised) ==
    LET d == Depth(t)
    IN /\ last' = [last EXCEPT ![t] = [fr EXCEPT !.raised = raised]]
       /\ scope' = [scope EXCEPT ![t] =
               IF d = 1 THEN <<>>
               ELSE [Front(@) EXCEPT ![d - 1].td_app = @ \o fr.td_app,
                                     ![d - 1].pure = @ /\ fr.pure]]
       /\ pc' = [pc EXCEPT ![t] = "exited"]

Stay(t, fr, where) ==
    /\ scope' = [scope EXCEPT ![t][Depth(t)] = fr]
    /\ pc' = [pc EXCEPT ![t] = where]
    /\ UNCHANGED last

\* __aenter__ of the innermost block has raised: the block is not entered and
\* its __aexit__ will not run.
LeaveEnter(t, fr, raised) ==
    LET d == Depth(t)
    IN /\ last' = [last EXCEPT ![t] = [fr EXCEPT !.raised = raised]]
       /\ scope' = [scope EXCEPT ![t] =
               IF d = 1 THEN <<>>
               ELSE [Front(@) EXCEPT ![d - 1].pure = FALSE]]
       /\ pc' = [pc EXCEPT ![t] = "enter_failed"]

\* AppContext.pop, lines 147-149 (from the finally on).
Finally(t, fr, failure) ==
    IF app_ctx_stack[t] = <<>>
    THEN /\ UNCHANGED app_ctx_stack
         /\ Leave(t, fr, "EmptyStackError")
    ELSE /\ app_ctx_stack' = [app_ctx_stack EXCEPT ![t] = PopFinally(@, failure # None)]
         /\ IF failure # None
            THEN Leave(t, fr, failure)
            ELSE Stay(t, fr, "appcontext_popped")

\* AppContext.pop, lines 143-146, on object `self` of heap `heap`.
AppContext_pop(t, fr, self, heap) ==
    LET c0 == heap[self].app_reference_count
        fr1 == [fr EXCEPT !.pop_self = self, !.pop_count0 = c0,
                          !.pop_stack0 = app_ctx_stack[t],
                          !.steps = Append(@, "app_pop")]
    IN /\ app_ctx' = [app_ctx EXCEPT ![t] =
               [heap EXCEPT ![self].app_reference_count = @ - 1]]
       /\ IF RunsTeardown(c0 - 1)
          THEN /\ Stay(t, fr1, "do_teardown_appcontext")
               /\ UNCHANGED app_ctx_stack
          ELSE Finally(t, fr1, None)

\* Task t meets one more failure, if it happens.
Fault(t, happens) ==
    IF happens
    THEN /\ ops > 0
         /\ ops' = ops - 1
    ELSE UNCHANGED ops

\* ---- entering ------------------------------------------------------------
\* The enclosing block, if any, learns that a block was entered inside it.
Nest(t, fr) ==
    LET d == Depth(t)
        same == d > 0 /\ fr.kind = "app" /\ ~fr.created
                /\ scope[t][d].kind = "app" /\ scope[t][d].id = fr.id
    IN Append(IF d = 0 THEN <<>>
              ELSE [scope[t] EXCEPT ![d].nested = @ + 1,
                                    ![d].pure = @ /\ same],
              fr)

CanEnter(t) ==
    /\ pc[t] = "body"
    /\ Depth(t) < MaxDepth
    /\ ops > 0

\* async with app.app_context(): (new) or async with ctx: for a ctx the task
\* is already inside (~new).  AppContext.__aenter__ up to the await of push.
AppContext_aenter(t, new) ==
    /\ CanEnter(t)
    /\ \E i \in 1 .. MaxDepth :
        /\ IF new THEN i = Depth(t) + 1
           ELSE \E j \in 1 .. Depth(t) :
                    scope[t][j].kind = "app" /\ scope[t][j].id = i
        /\ LET obj == IF new THEN Quart_app_context(t, i) ELSE app_ctx[t][i]
               S == AppContext_push(
                        [ctx |-> [app_ctx[t] EXCEPT ![i] = obj],
                         stack |-> app_ctx_stack[t]], i)
               fr == NewFrame(t, "app", i, new, obj.app_reference_count)
           IN /\ app_ctx' = [app_ctx EXCEPT ![t] = S.ctx]
              /\ app_ctx_stack' = [app_ctx_stack EXCEPT ![t] = S.stack]
              /\ g_dict' = IF new THEN [g_dict EXCEPT ![obj.g] = EmptyDict]
                           ELSE g_dict
              /\ scope' = [scope EXCEPT ![t] = Nest(t, fr)]
    /\ pc' = [pc EXCEPT ![t] = "appcontext_pushed"]
    /\ ops' = ops - 1
    /\ UNCHANGED <<request_ctx_stack, websocket_ctx_stack,
                   after_request_functions, last, error, aborted>>
    /\ UNCHANGED <<request_websocket, returned>>

\* (an AppContext is pushed whether one is active or not)
Base_aenter_always_pushes(t, kind) ==
    LET i == Depth(t) + 1
        top == LocalStack_top(app_ctx_stack[t])
        count == IF top = Null THEN 0 ELSE app_ctx[t][top].app_reference_count
        fr == [NewFrame(t, kind, i, TRUE, count) EXCEPT !.steps = <<"app_push">>]
        obj == Quart_app_context(t, i)
        S == AppContext_push([ctx |-> [app_ctx[t] EXCEPT ![i] = obj],
                              stack |-> app_ctx_stack[t]], i)
    IN /\ scope' = [scope EXCEPT ![t] = Nest(t, fr)]
       /\ ops' = ops - 1
       /\ app_ctx' = [app_ctx EXCEPT ![t] = S.ctx]
       /\ app_ctx_stack' = [app_ctx_stack EXCEPT ![t] = S.stack]
       /\ g_dict' = [g_dict EXCEPT ![obj.g] = EmptyDict]
       /\ pc' = [pc EXCEPT ![t] = "appcontext_pushed"]
\* _BaseRequestWebsocketContext.__aenter__, lines 46-48, for a context of
\* `kind` constructed as object Depth(t) + 1 of the task.
Base_aenter(t, kind) ==
    LET i == Depth(t) + 1
        top == LocalStack_top(app_ctx_stack[t])
        count == IF top = Null THEN 0 ELSE app_ctx[t][top].app_reference_count
        fr == [NewFrame(t, kind, i, top = Null, count) EXCEPT
                  !.steps = IF top = Null THEN <<"app_push">> ELSE <<>>]
    IN /\ scope' = [scope EXCEPT ![t] = Nest(t, fr)]
       /\ ops' = ops - 1
       /\ IF top = Null
          THEN LET obj == Quart_app_context(t, i)
                   S == AppContext_push(
                            [ctx |-> [app_ctx[t] EXCEPT ![i] = obj],
                             stack |-> app_ctx_stack[t]], i)
               IN /\ app_ctx' = [app_ctx EXCEPT ![t] = S.ctx]
                  /\ app_ctx_stack' = [app_ctx_stack EXCEPT ![t] = S.stack]
                  /\ g_dict' = [g_dict EXCEPT ![obj.g] = EmptyDict]
                  /\ pc' = [pc EXCEPT ![t] = "appcontext_pushed"]
          ELSE /\ pc' = [pc EXCEPT ![t] = "open_session"]
               /\ UNCHANGED <<app_ctx, app_ctx_stack, g_dict>>

\* RequestContext.__init__ and the start of RequestContext.__aenter__.
RequestContext_aenter(t) ==
    /\ CanEnter(t)
    /\ after_request_functions' =
           [after_request_functions EXCEPT ![t][Depth(t) + 1] = <<>>]
    /\ Base_aenter(t, "request")
    /\ UNCHANGED <<request_ctx_stack, websocket_ctx_stack, last, error, aborted>>
    /\ UNCHANGED <<request_websocket, returned>>

\* WebsocketContext.__init__ and the start of WebsocketContext.__aenter__.
WebsocketContext_aenter(t) ==
    /\ CanEnter(t)
    /\ Base_aenter(t, "websocket")
    /\ UNCHANGED <<request_ctx_stack, websocket_ctx_stack,
                   after_request_functions, last, error, aborted>>
    /\ UNCHANGED <<request_websocket, returned>>

\* AppContext.push, line 140: appcontext_pushed.send returns.
appcontext_pushed_send(t) ==
    /\ pc[t] = "appcontext_pushed"
    /\ pc' = [pc EXCEPT ![t] =
                 IF Cur(t).kind = "app" THEN "body" ELSE "open_session"]
    /\ scope' = [scope EXCEPT ![t][Depth(t)].notified = @ + 1]
    /\ UNCHANGED <<app_ctx_stack, request_ctx_stack, websocket_ctx_stack,
                   app_ctx, g_dict, after_request_functions, last, error,
                   aborted, ops>>
    /\ UNCHANGED <<request_websocket, returned>>

\* (the session is left as open_session returned it)
make_session_as_opened(opened) == opened
\* Lines 50-52: the null session stands in for no session.
make_session(opened) == IF opened = None THEN "null_session" ELSE opened

\* Lines 50-53, then line 81 or line 109: the session, then the push of self.
\* opened is what Quart.open_session returned.
open_session(t, opened) ==
    /\ pc[t] = "open_session"
    /\ scope' = [scope EXCEPT ![t][Depth(t)] =
                    [@ EXCEPT !.session = make_session(opened),
                              !.opened = opened,
                              !.steps = @ \o <<"open_session", "push">>,
                              !.app_at_push = app_ctx_stack[t]]]
    /\ IF Cur(t).kind = "request"
       THEN /\ request_ctx_stack' = [request_ctx_stack EXCEPT ![t] =
                                        LocalStack_push(@, Cur(t).id)]
            /\ UNCHANGED websocket_ctx_stack
       ELSE /\ websocket_ctx_stack' = [websocket_ctx_stack EXCEPT ![t] =
                                          LocalStack_push(@, Cur(t).id)]
            /\ UNCHANGED request_ctx_stack
    /\ pc' = [pc EXCEPT ![t] = "body"]
    /\ UNCHANGED <<app_ctx_stack, app_ctx, g_dict, after_request_functions,
                   last, error, aborted, ops>>
    /\ UNCHANGED <<request_websocket, returned>>

\* AppContext.push, line 140: a receiver of appcontext_pushed raises, and so
\* does __aenter__; lines 138-139 have been done.
appcontext_pushed_raises(t) ==
    /\ pc[t] = "appcontext_pushed"
    /\ LeaveEnter(t, Cur(t), "SignalError")
    /\ Fault(t, TRUE)
    /\ UNCHANGED <<app_ctx_stack, request_ctx_stack, websocket_ctx_stack,
                   app_ctx, g_dict, after_request_functions, error, aborted>>
    /\ UNCHANGED <<request_websocket, returned>>

\* Line 50: Quart.open_session raises, and so does __aenter__.
open_session_raises(t) ==
    /\ pc[t] = "open_session"
    /\ LeaveEnter(t, Cur(t), "SessionError")
    /\ Fault(t, TRUE)
    /\ UNCHANGED <<app_ctx_stack, request_ctx_stack, websocket_ctx_stack,
                   app_ctx, g_dict, after_request_functions, error, aborted>>
    /\ UNCHANGED <<request_websocket, returned>>

\* ---- the body of a block -------------------------------------------------
\* An exception raised by the code of the body: __aexit__ of the innermost
\* block gets it, or, outside every block, it ends the task.
RaiseInBody(t, e) ==
    IF Depth(t) = 0
    THEN /\ pc' = [pc EXCEPT ![t] = "done"]
         /\ error' = [error EXCEPT ![t] = e]
         /\ UNCHANGED scope
    ELSE /\ pc' = [pc EXCEPT ![t] = "aexit"]
         /\ scope' = [scope EXCEPT ![t][Depth(t)].exc = e]
         /\ UNCHANGED error

InnermostRequest(t) ==
    LET S == {j \in 1 .. Depth(t) : scope[t][j].kind = "request"}
    IN IF S = {} THEN 0 ELSE CHOOSE j \in S : \A k \in S : k <= j

\* (the callback goes first, into the list of the bottom context)
after_this_request_first(t, func) ==
    /\ pc[t] = "body"
    /\ IF LocalStack_top(request_ctx_stack[t]) = Null
       THEN /\ RaiseInBody(t, "AttributeError")
            /\ UNCHANGED <<after_request_functions, ops>>
       ELSE LET j == InnermostRequest(t)
            IN /\ ops > 0
               /\ ops' = ops - 1
               /\ after_request_functions' =
                      [after_request_functions EXCEPT
                          ![t][request_ctx_stack[t][1]] = <<func>> \o @]
               /\ scope' = IF j = 0 THEN scope
                           ELSE [scope EXCEPT ![t][j].registered = Append(@, func)]
               /\ UNCHANGED <<pc, error>>
    /\ UNCHANGED <<app_ctx_stack, request_ctx_stack, websocket_ctx_stack,
                   app_ctx, g_dict, last, aborted>>
    /\ UNCHANGED <<request_websocket, returned>>
\* (no context: the call returns as if it had registered the callback)
after_this_request_silent(t, func) ==
    /\ pc[t] = "body"
    /\ ops > 0
    /\ ops' = ops - 1
    /\ IF LocalStack_top(request_ctx_stack[t]) = Null
       THEN UNCHANGED <<after_request_functions, scope, pc, error>>
       ELSE LET j == InnermostRequest(t)
            IN /\ after_request_functions' =
                      [after_request_functions EXCEPT
                          ![t][LocalStack_top(request_ctx_stack[t])] = Append(@, func)]
               /\ scope' = IF j = 0 THEN scope
                           ELSE [scope EXCEPT ![t][j].registered = Append(@, func)]
               /\ UNCHANGED <<pc, error>>
    /\ UNCHANGED <<app_ctx_stack, request_ctx_stack, websocket_ctx_stack,
                   app_ctx, g_dict, last, aborted>>
    /\ UNCHANGED <<request_websocket, returned>>
\* after_this_request, line 175; None has no _after_request_functions.
after_this_request(t, func) ==
    /\ pc[t] = "body"
    /\ IF LocalStack_top(request_ctx_stack[t]) = Null
       THEN /\ RaiseInBody(t, "AttributeError")
            /\ UNCHANGED <<after_request_functions, ops>>
       ELSE LET j == InnermostRequest(t)
            IN /\ ops > 0
               /\ ops' = ops - 1
               /\ after_request_functions' =
                      [after_request_functions EXCEPT
                          ![t][LocalStack_top(request_ctx_stack[t])] = Append(@, func)]
               /\ scope' = IF j = 0 THEN scope
                           ELSE [scope EXCEPT ![t][j].registered = Append(@, func)]
               /\ UNCHANGED <<pc, error>>
    /\ UNCHANGED <<app_ctx_stack, request_ctx_stack, websocket_ctx_stack,
                   app_ctx, g_dict, last, aborted>>
    /\ UNCHANGED <<request_websocket, returned>>

\* g.<name> = <the task's own value>, on the globals of the active AppContext.
set_global(t, name) ==
    /\ pc[t] = "body"
    /\ has_app_context(t)
    /\ LET o == app_ctx[t][LocalStack_top(app_ctx_stack[t])].g
       IN /\ g_dict[o] # (name :> t) @@ g_dict[o]
          /\ g_dict' = [g_dict EXCEPT ![o] = (name :> t) @@ @]
    /\ UNCHANGED <<pc, scope, app_ctx_stack, request_ctx_stack,
                   websocket_ctx_stack, app_ctx, after_request_functions, last,
                   error, aborted, ops>>
    /\ UNCHANGED <<request_websocket, returned>>

BodyEnds(t, e) ==
    /\ pc[t] = "body"
    /\ Depth(t) > 0
    /\ RaiseInBody(t, e)
    /\ Fault(t, e # None)
    /\ UNCHANGED <<app_ctx_stack, request_ctx_stack, websocket_ctx_stack,
                   app_ctx, g_dict, after_request_functions, last, aborted>>
    /\ UNCHANGED <<request_websocket, returned>>

\* The body runs to its end.
BodyReturns(t) == BodyEnds(t, None)
\* The body raises.
BodyRaises(t) == BodyEnds(t, "E")
\* The task is cancelled while it waits in the body: CancelledError is
\* raised there.
Cancel(t) == BodyEnds(t, "CancelledError")

\* ---- exiting -------------------------------------------------------------
\* (a cancelled block is left without any cleanup)
do_teardown_request_unless_cancelled(t, fails) ==
    /\ pc[t] = "aexit"
    /\ Cur(t).kind = "request"
    /\ LET skip == Cur(t).exc = "CancelledError"
           fr == IF skip THEN Cur(t)
                 ELSE [Cur(t) EXCEPT !.td_req = Append(@, Cur(t).exc),
                                     !.tr_failed = fails,
                                     !.steps = Append(@, "do_teardown_request")]
       IN IF skip
          THEN /\ Leave(t, fr, fr.exc)
               /\ UNCHANGED aborted
          ELSE IF fails
          THEN /\ Leave(t, fr, "TeardownRequestError")
               /\ aborted' = [aborted EXCEPT ![t] = TRUE]
          ELSE /\ Stay(t, fr, "request_pop")
               /\ UNCHANGED aborted
    /\ Fault(t, fails)
    /\ UNCHANGED <<app_ctx_stack, request_ctx_stack, websocket_ctx_stack,
                   app_ctx, g_dict, after_request_functions, error>>
    /\ UNCHANGED <<request_websocket, returned>>
\* RequestContext.__aexit__, line 85: the request-teardown hooks run with
\* exc_value; fails: they raise, and lines 86-87 are not reached.
do_teardown_request(t, fails) ==
    /\ pc[t] = "aexit"
    /\ Cur(t).kind = "request"
    /\ LET fr == [Cur(t) EXCEPT !.td_req = Append(@, Cur(t).exc),
                                !.tr_failed = fails,
                                !.steps = Append(@, "do_teardown_request")]
       IN IF fails
          THEN /\ Leave(t, fr, "TeardownRequestError")
               /\ aborted' = [aborted EXCEPT ![t] = TRUE]
          ELSE /\ Stay(t, fr, "request_pop")
               /\ UNCHANGED aborted
    /\ Fault(t, fails)
    /\ UNCHANGED <<app_ctx_stack, request_ctx_stack, websocket_ctx_stack,
                   app_ctx, g_dict, after_request_functions, error>>
    /\ UNCHANGED <<request_websocket, returned>>

\* _BaseRequestWebsocketContext.__aexit__, line 56, up to the first await of
\* AppContext.pop: a new AppContext (object Temp of the task) is popped.
Base_aexit(t, fr) ==
    LET obj == Quart_app_context(t, Temp)
    IN /\ g_dict' = [g_dict EXCEPT ![obj.g] = EmptyDict]
       /\ AppContext_pop(t, fr, Temp, [app_ctx[t] EXCEPT ![Temp] = obj])

\* RequestContext.__aexit__, lines 86-87.
RequestContext_aexit(t) ==
    /\ pc[t] = "request_pop"
    /\ IF request_ctx_stack[t] = <<>>
       THEN /\ Leave(t, Cur(t), "EmptyStackError")
            /\ UNCHANGED <<request_ctx_stack, app_ctx, app_ctx_stack, g_dict>>
       ELSE /\ request_ctx_stack' = [request_ctx_stack EXCEPT ![t] = LocalStack_pop(@)]
            /\ Base_aexit(t, [Cur(t) EXCEPT !.steps = Append(@, "request_pop")])
    /\ UNCHANGED <<websocket_ctx_stack, after_request_functions, error,
                   aborted, ops>>
    /\ UNCHANGED <<request_websocket, returned>>

\* (the websocket stack keeps its entry)
WebsocketContext_aexit_keeps_the_entry(t) ==
    /\ pc[t] = "aexit"
    /\ Cur(t).kind = "websocket"
    /\ Base_aexit(t, [Cur(t) EXCEPT !.steps = Append(@, "websocket_pop")])
    /\ UNCHANGED <<request_ctx_stack, websocket_ctx_stack,
                   after_request_functions, error, aborted, ops>>
    /\ UNCHANGED <<request_websocket, returned>>
\* WebsocketContext.__aexit__, lines 113-114.
WebsocketContext_aexit(t) ==
    /\ pc[t] = "aexit"
    /\ Cur(t).kind = "websocket"
    /\ IF websocket_ctx_stack[t] = <<>>
       THEN /\ Leave(t, Cur(t), "EmptyStackError")
            /\ UNCHANGED <<websocket_ctx_stack, app_ctx, app_ctx_stack, g_dict>>
       ELSE /\ websocket_ctx_stack' = [websocket_ctx_stack EXCEPT ![t] = LocalStack_pop(@)]
            /\ Base_aexit(t, [Cur(t) EXCEPT !.steps = Append(@, "websocket_pop")])
    /\ UNCHANGED <<request_ctx_stack, after_request_functions, error, aborted,
                   ops>>
    /\ UNCHANGED <<request_websocket, returned>>

\* AppContext.__aexit__, line 156, up to the first await of AppContext.pop.
AppContext_aexit(t) ==
    /\ pc[t] = "aexit"
    /\ Cur(t).kind = "app"
    /\ AppContext_pop(t, Cur(t), Cur(t).id, app_ctx[t])
    /\ UNCHANGED <<request_ctx_stack, websocket_ctx_stack, g_dict,
                   after_request_functions, error, aborted, ops>>
    /\ UNCHANGED <<request_websocket, returned>>

\* AppContext.pop, lines 146-148: the app teardown hooks run with exc; fails:
\* they raise.  The finally removes the stack entry either way.
do_teardown_appcontext(t, fails) ==
    /\ pc[t] = "do_teardown_appcontext"
    /\ LET fr == [Cur(t) EXCEPT !.td_app = Append(@, Cur(t).exc),
                                !.pop_td = @ + 1, !.ta_failed = fails,
                                !.steps = Append(@, "do_teardown_appcontext")]
       IN Finally(t, fr, IF fails THEN "TeardownAppError" ELSE None)
    /\ Fault(t, fails)
    /\ UNCHANGED <<request_ctx_stack, websocket_ctx_stack, app_ctx, g_dict,
                   after_request_functions, error, aborted>>
    /\ UNCHANGED <<request_websocket, returned>>

\* (__aexit__ returns a true value: the body's exception is swallowed)
appcontext_popped_send_suppresses(t) ==
    /\ pc[t] = "appcontext_popped"
    /\ Leave(t, Cur(t), None)
    /\ UNCHANGED <<app_ctx_stack, request_ctx_stack, websocket_ctx_stack,
                   app_ctx, g_dict, after_request_functions, error, aborted,
                   ops>>
    /\ UNCHANGED <<request_websocket, returned>>
\* AppContext.pop, line 149: appcontext_popped.send returns, and so does
\* __aexit__, with None: the body's exception, if any, goes on.
appcontext_popped_send(t) ==
    /\ pc[t] = "appcontext_popped"
    /\ Leave(t, Cur(t), Cur(t).exc)
    /\ UNCHANGED <<app_ctx_stack, request_ctx_stack, websocket_ctx_stack,
                   app_ctx, g_dict, after_request_functions, error, aborted,
                   ops>>
    /\ UNCHANGED <<request_websocket, returned>>

\* After the async-with statement: the task goes on in the enclosing body,
\* or the exception reaches the enclosing block, or it ends the task.
Resume(t) ==
    /\ pc[t] \in {"exited", "enter_failed"}
    /\ last' = [last EXCEPT ![t] = NoFrame]
    /\ LET e == last[t].raised
       IN IF e = None
          THEN /\ pc' = [pc EXCEPT ![t] = "body"]
               /\ UNCHANGED <<scope, error>>
          ELSE RaiseInBody(t, e)
    \* objects nothing refers to any more are gone
    /\ LET dead(stack) == {i \in CtxIds : i > Depth(t) /\ ~\E k \in DOMAIN stack : stack[k] = i}
           deadApp == dead(app_ctx_stack[t])
           deadReq == dead(request_ctx_stack[t]) \ {Temp}
       IN /\ app_ctx' = [app_ctx EXCEPT ![t] =
                  [i \in CtxIds |-> IF i \in deadApp THEN AppContext_init(t, i) ELSE @[i]]]
          /\ g_dict' = [o \in GObjects |->
                  IF o[1] = t /\ o[2] \in deadApp THEN EmptyDict ELSE g_dict[o]]
          /\ after_request_functions' = [after_request_functions EXCEPT ![t] =
                  [i \in 1 .. MaxDepth |-> IF i \in deadReq THEN <<>> ELSE @[i]]]
    /\ UNCHANGED <<app_ctx_stack, request_ctx_stack, websocket_ctx_stack,
                   aborted, ops>>
    /\ UNCHANGED <<request_websocket, returned>>

Next ==
    \E t \in Tasks :
        \/ \E new \in BOOLEAN : AppContext_aenter(t, new)
        \/ RequestContext_aenter(t)
        \/ WebsocketContext_aenter(t)
        \/ appcontext_pushed_send(t)
        \/ appcontext_pushed_raises(t)
        \/ \E opened \in {None, "session"} : open_session(t, opened)
        \/ open_session_raises(t)
        \/ \E func \in Callbacks : after_this_request(t, func)
        \/ \E name \in Keys : set_global(t, name)
        \/ BodyReturns(t)
        \/ BodyRaises(t)
        \/ Cancel(t)
        \/ \E fails \in BOOLEAN : do_teardown_request(t, fails)
        \/ RequestContext_aexit(t)
        \/ WebsocketContext_aexit(t)
        \/ AppContext_aexit(t)
        \/ \E fails \in BOOLEAN : do_teardown_appcontext(t, fails)
        \/ appcontext_popped_send(t)
        \/ Resume(t)

Spec == Init /\ [][Next]_vars

\* Two tasks side by side, each entering its own contexts.
InitTasks ==
    /\ Fresh
    /\ pc = [t \in Tasks |-> "body"]
    /\ ops = TaskOps

SpecTasks == InitTasks /\ [][Next]_vars

\* ---- constructing the contexts ------------------------------------------
stack_vars == <<pc, scope, app_ctx_stack, request_ctx_stack,
                websocket_ctx_stack, app_ctx, g_dict, after_request_functions,
                last, error, aborted, ops>>

\* RequestContext(app, request), lines 71-73 and 24-31, when the adapter's
\* match does m.
RequestContext_init(m) ==
    LET r == Base_match_request(Base_init(request_websocket["request"]), m)
    IN /\ request_websocket' = [request_websocket EXCEPT !["request"] = r.obj]
       /\ returned' = [call |-> "RequestContext", match |-> m,
                       raised |-> r.raised]
       /\ UNCHANGED stack_vars

\* WebsocketContext(app, websocket), lines 24-31 with the match_request of
\* lines 102-105.
WebsocketContext_init(m) ==
    LET r == WebsocketContext_match_request(
                 Base_init(request_websocket["websocket"]), m)
    IN /\ request_websocket' = [request_websocket EXCEPT !["websocket"] = r.obj]
       /\ returned' = [call |-> "WebsocketContext", match |-> m,
                       raised |-> r.raised]
       /\ UNCHANGED stack_vars

\* Nothing is entered: contexts are only constructed.
InitRouting ==
    /\ Fresh
    /\ pc = [t \in Tasks |-> "done"]
    /\ ops = 0

NextRouting ==
    \E m \in Matches :
        \/ RequestContext_init(m)
        \/ WebsocketContext_init(m)

SpecRouting == InitRouting /\ [][NextRouting]_vars

\* ---- _AppCtxGlobals ------------------------------------------------------
Names == {"user", "db"}
Values == {None, "v1", "v2"}
sentinel == "_sentinel"

\* dict.pop(name) and dict.pop(name, default) of Python, on the dict d
\* (sentinel: no default was passed).
dict_pop(d, name, default) ==
    IF name \in DOMAIN d
    THEN [dict |-> [k \in DOMAIN d \ {name} |-> d[k]], value |-> d[name],
          raised |-> None]
    ELSE IF default = sentinel
    THEN [dict |-> d, value |-> None, raised |-> "KeyError"]
    ELSE [dict |-> d, value |-> default, raised |-> None]

\* _AppCtxGlobals.get, line 235.
AppCtxGlobals_get(d, name, default) ==
    [dict |-> d, value |-> IF name \in DOMAIN d THEN d[name] ELSE default,
     raised |-> None]

\* (a default of None is taken for no default)
AppCtxGlobals_pop_none_is_no_default(d, name, default) ==
    IF default = sentinel \/ default = None
    THEN dict_pop(d, name, sentinel)
    ELSE dict_pop(d, name, default)
\* _AppCtxGlobals.pop, lines 239-242.
AppCtxGlobals_pop(d, name, default) ==
    IF default = sentinel
    THEN dict_pop(d, name, sentinel)
    ELSE dict_pop(d, name, default)

\* (the default is stored whatever the dict holds)
AppCtxGlobals_setdefault_overwrites(d, name, default) ==
    [dict |-> (name :> default) @@ d, value |-> default, raised |-> None]
\* _AppCtxGlobals.setdefault, line 246.
AppCtxGlobals_setdefault(d, name, default) ==
    IF name \in DOMAIN d
    THEN [dict |-> d, value |-> d[name], raised |-> None]
    ELSE [dict |-> (name :> default) @@ d, value |-> default, raised |-> None]

\* The globals object the calls are made on: g of the first AppContext.
TheG == app_ctx["t1"][1].g

\* One call on g: what was called, on what, and what came of it.
Call(call, name, default, r) ==
    /\ g_dict' = [g_dict EXCEPT ![TheG] = r.dict]
    /\ returned' = [call |-> call, name |-> name, default |-> default,
                    before |-> g_dict[TheG], value |-> r.value,
                    raised |-> r.raised]
    /\ UNCHANGED <<pc, scope, app_ctx_stack, request_ctx_stack,
                   websocket_ctx_stack, app_ctx, after_request_functions,
                   last, error, aborted, ops, request_websocket>>

\* g.get(name, default)
g_get(name, default) ==
    Call("get", name, default, AppCtxGlobals_get(g_dict[TheG], name, default))

\* g.pop(name) (default = sentinel) and g.pop(name, default)
g_pop(name, default) ==
    Call("pop", name, default, AppCtxGlobals_pop(g_dict[TheG], name, default))

\* g.setdefault(name, default)
g_setdefault(name, default) ==
    Call("setdefault", name, default,
         AppCtxGlobals_setdefault(g_dict[TheG], name, default))

\* Nothing is entered: calls are made on one globals object, empty at first.
InitGlobals ==
    /\ Fresh
    /\ pc = [t \in Tasks |-> "done"]
    /\ ops = 0

NextGlobals ==
    \E name \in Names :
        \/ \E default \in Values : g_get(name, default)
        \/ \E default \in Values \cup {sentinel} : g_pop(name, default)
        \/ \E default \in Values : g_setdefault(name, default)

SpecGlobals == InitGlobals /\ [][NextGlobals]_vars

\* ---- properties ----------------------------------------------------------
Exited(t, kind) == pc[t] = "exited" /\ last[t].kind = kind
HooksOk(fr) == ~fr.tr_failed /\ ~fr.ta_failed
Count(t, i) == app_ctx[t][i].app_reference_count

\* C1: a RequestContext entered with the task's app stack empty and exited,
\* with nothing entered in between and neither body nor hooks failing, leaves
\* the request stack as it was before (empty when it was empty) and the app
\* stack empty, and the app teardown hook has run exactly once.
C1_RequestAloneLeavesStacksEmpty ==
    \A t \in Tasks :
        (/\ Exited(t, "request")
         /\ last[t].pre_app = <<>>
         /\ last[t].nested = 0
         /\ last[t].exc = None
         /\ HooksOk(last[t]))
        => /\ request_ctx_stack[t] = last[t].pre_req
           /\ app_ctx_stack[t] = <<>>
           /\ Len(last[t].td_app) = 1
           /\ last[t].raised = None

C1_Witness ==
    \E t \in Tasks :
        /\ Exited(t, "request")
        /\ last[t].pre_app = <<>> /\ last[t].pre_req = <<>>
        /\ last[t].nested = 0 /\ last[t].exc = None /\ HooksOk(last[t])
        /\ request_ctx_stack[t] = <<>> /\ app_ctx_stack[t] = <<>>

\* C2: a RequestContext entered on top of an active AppContext whose count is
\* 1 makes the count 2 while it is entered; after its exit the count is 1
\* again, the AppContext is still the top of the app stack and the app
\* teardown hook has not run.
C2_ReuseCountsTheAppContext ==
    \A t \in Tasks :
        /\ (/\ pc[t] = "body" /\ Depth(t) > 0
            /\ Cur(t).kind = "request"
            /\ Cur(t).pre_app # <<>> /\ Cur(t).pre_count = 1
            /\ Cur(t).nested = 0)
           => Count(t, LocalStack_top(Cur(t).pre_app)) = 2
        /\ (/\ Exited(t, "request")
            /\ last[t].pre_app # <<>> /\ last[t].pre_count = 1
            /\ last[t].nested = 0 /\ last[t].exc = None /\ HooksOk(last[t]))
           => /\ Count(t, LocalStack_top(last[t].pre_app)) = 1
              /\ app_ctx_stack[t] = last[t].pre_app
              /\ last[t].td_app = <<>>

\* The exit half of C2 alone.
C2_ExitKeepsTheAppContext ==
    \A t \in Tasks :
        (/\ Exited(t, "request")
         /\ last[t].pre_app # <<>> /\ last[t].pre_count = 1
         /\ last[t].nested = 0 /\ last[t].exc = None /\ HooksOk(last[t]))
        => /\ app_ctx_stack[t] = last[t].pre_app
           /\ last[t].td_app = <<>>

\* C3: in each of two interleaved tasks has_request_context() is true
\* whenever the task is in the body of a RequestContext it entered, and true
\* only if the task itself has a RequestContext that it entered and has not
\* taken off its stack (one it is entering or exiting, or one whose exit a
\* failing request-teardown hook cut short); and the globals of a task's
\* AppContexts hold nothing another task wrote.
InBodyOf(t, j) ==
    /\ j \in 1 .. Depth(t)
    /\ j < Depth(t) \/ pc[t] \in {"body", "exited", "enter_failed"}

C3_TasksAreIsolated ==
    \A t \in Tasks :
        /\ (\E j \in 1 .. Depth(t) :
                scope[t][j].kind = "request" /\ InBodyOf(t, j))
           => has_request_context(t)
        /\ has_request_context(t)
           => \/ \E j \in 1 .. Depth(t) : scope[t][j].kind = "request"
              \/ aborted[t]
        /\ \A i \in CtxIds :
               \A k \in DOMAIN g_dict[app_ctx[t][i].g] :
                   g_dict[app_ctx[t][i].g][k] = t

C3_Witness ==
    /\ \A t \in Tasks :
           /\ Depth(t) = 1 /\ pc[t] = "body" /\ Cur(t).kind = "request"
           /\ has_request_context(t)
           /\ g_dict[app_ctx[t][LocalStack_top(app_ctx_stack[t])].g] # EmptyDict

\* C4: when the body of a RequestContext fails with E, the exit calls the
\* request-teardown hook exactly once, with E; if that hook does not fail the
\* context is off the request stack; and if no hook fails and the app stack
\* still has an entry to pop, E is what the exit passes on to the caller.
C4_BodyErrorIsTornDownAndReraised ==
    \A t \in Tasks :
        (Exited(t, "request") /\ last[t].exc = "E")
        => /\ last[t].td_req = <<"E">>
           /\ ~last[t].tr_failed => request_ctx_stack[t] = last[t].pre_req
           /\ (HooksOk(last[t]) /\ last[t].pop_stack0 # <<>>)
              => last[t].raised = "E"

C4_Witness ==
    \E t \in Tasks :
        /\ Exited(t, "request") /\ last[t].exc = "E"
        /\ HooksOk(last[t]) /\ last[t].pop_stack0 # <<>>
        /\ last[t].raised = "E"
        /\ request_ctx_stack[t] = <<>>

\* C5: when a teardown hook fails during the exit of a RequestContext that
\* pushed its own AppContext, the failure reaches the caller and the cleanup
\* is complete all the same: the context is off the request stack, the
\* AppContext is off the app stack and its count is back at zero.
C5_HookFailureStillCleansUp ==
    \A t \in Tasks :
        (/\ Exited(t, "request")
         /\ last[t].created /\ last[t].nested = 0
         /\ last[t].tr_failed \/ last[t].ta_failed)
        => /\ last[t].raised \in {"TeardownRequestError", "TeardownAppError"}
           /\ request_ctx_stack[t] = last[t].pre_req
           /\ app_ctx_stack[t] = last[t].pre_app
           /\ Count(t, last[t].id) = 0

\* C6: when the app teardown hook fails inside AppContext.pop, on a stack that
\* has a top entry, the failure reaches the caller of pop, and by then the
\* count of the popped AppContext is one less and the top entry is gone.
C6_PopFinallyRemovesTheEntry ==
    \A t \in Tasks :
        (/\ pc[t] = "exited" /\ last[t].kind # None
         /\ last[t].ta_failed
         /\ last[t].pop_stack0 # <<>>)
        => /\ last[t].raised = "TeardownAppError"
           /\ Count(t, last[t].pop_self) = last[t].pop_count0 - 1
           /\ app_ctx_stack[t] = Front(last[t].pop_stack0)

C6_Witness ==
    \E t \in Tasks :
        /\ Exited(t, "app")
        /\ last[t].ta_failed /\ last[t].pop_stack0 # <<>>
        /\ last[t].raised = "TeardownAppError"
        /\ app_ctx_stack[t] = <<>>

\* C7: every push of an AppContext adds one to its count, every pop takes one
\* off, and a pop runs the app teardown hook exactly when it leaves the count
\* at zero or below; n nested pushes of one AppContext followed by n pops run
\* the hook once, in the last pop.
C7_CountAndTeardown ==
    \A t \in Tasks :
        /\ (pc[t] = "appcontext_pushed" /\ Cur(t).kind = "app")
           => Count(t, Cur(t).id) = Cur(t).pre_count + 1
        /\ Exited(t, "app")
           => /\ Count(t, last[t].id) = last[t].pop_count0 - 1
              /\ last[t].pop_td = IF Count(t, last[t].id) <= 0 THEN 1 ELSE 0
        /\ (Exited(t, "app") /\ last[t].created /\ last[t].pure)
           => /\ Count(t, last[t].id) = 0
              /\ Len(last[t].td_app) = 1
              /\ last[t].pop_td = 1

C7_Witness ==
    \E t \in Tasks :
        /\ Exited(t, "app") /\ last[t].created /\ last[t].pure
        /\ last[t].nested > 0
        /\ Len(last[t].td_app) = 1

\* C8: after_this_request called with no RequestContext on the task's stack
\* raises (AttributeError, the failure the specification calls
\* NoActiveContextError) and leaves every callback list as it was.
C8_NoContextRaises ==
    [][\A t \in Tasks, func \in Callbacks :
          (after_this_request(t, func) /\ ~has_request_context(t))
          => /\ after_request_functions' = after_request_functions
             /\ IF Depth(t) = 0
                THEN pc'[t] = "done" /\ error'[t] = "AttributeError"
                ELSE pc'[t] = "aexit"
                     /\ scope'[t][Depth(t)].exc = "AttributeError"]_vars

C8_Witness ==
    \E t \in Tasks :
        \/ pc[t] = "done" /\ error[t] = "AttributeError"
        \/ /\ pc[t] = "aexit" /\ Cur(t).exc = "AttributeError"
           /\ Cur(t).kind = "app"

\* C9: the callback list of every RequestContext holds the callbacks
\* registered while it was the innermost RequestContext of its task, in the
\* order of registration.
C9_CallbacksInRegistrationOrder ==
    \A t \in Tasks : \A j \in 1 .. Depth(t) :
        scope[t][j].kind = "request"
        => after_request_functions[t][scope[t][j].id] = scope[t][j].registered

C9_Witness ==
    \E t \in Tasks :
        /\ Depth(t) = 2 /\ pc[t] = "body"
        /\ scope[t][1].kind = "request" /\ scope[t][2].kind = "request"
        /\ after_request_functions[t][1] = <<"g">>
        /\ after_request_functions[t][2] = <<"f">>

C9_WitnessOrder ==
    \E t \in Tasks :
        /\ Depth(t) = 1 /\ pc[t] = "body" /\ Cur(t).kind = "request"
        /\ after_request_functions[t][1] = <<"g", "f">>

\* C10: when a task is cancelled in the body of a context, the exit of the
\* context runs with CancelledError: a RequestContext has its request-teardown
\* hook called with it and, that hook not failing, is off the request stack;
\* a WebsocketContext is off the websocket stack; AppContext.pop has taken one
\* off the count and, the app stack having a top entry, removed it; and a task
\* that ends with the CancelledError has left every stack empty.
C10_CancelRunsTheExit ==
    \A t \in Tasks :
        /\ (Exited(t, "request") /\ last[t].exc = "CancelledError")
           => /\ last[t].td_req = <<"CancelledError">>
              /\ ~last[t].tr_failed => request_ctx_stack[t] = last[t].pre_req
        /\ (Exited(t, "websocket") /\ last[t].exc = "CancelledError")
           => websocket_ctx_stack[t] = last[t].pre_ws
        /\ (/\ pc[t] = "exited" /\ last[t].kind # None
            /\ last[t].exc = "CancelledError" /\ ~last[t].tr_failed)
           => /\ Count(t, last[t].pop_self) = last[t].pop_count0 - 1
              /\ Count(t, last[t].pop_self) <= 0
                 => /\ last[t].pop_td = 1
                    /\ last[t].td_app[Len(last[t].td_app)] = "CancelledError"
              /\ last[t].pop_stack0 # <<>>
                 => app_ctx_stack[t] = Front(last[t].pop_stack0)
        /\ (pc[t] = "done" /\ error[t] = "CancelledError")
           => /\ scope[t] = <<>>
              /\ app_ctx_stack[t] = <<>>
              /\ request_ctx_stack[t] = <<>>
              /\ websocket_ctx_stack[t] = <<>>

C10_Witness ==
    \E t \in Tasks :
        /\ Exited(t, "request") /\ last[t].exc = "CancelledError"
        /\ last[t].td_req = <<"CancelledError">>
        /\ last[t].td_app = <<"CancelledError">>
        /\ last[t].raised = "CancelledError"
        /\ request_ctx_stack[t] = <<>> /\ app_ctx_stack[t] = <<>>

\* C11: constructing a WebsocketContext does not raise when the match returns
\* a rule or raises NotFound, MethodNotAllowed or RedirectRequired; a rule
\* that is not websocket-capable leaves BadRequest on the websocket, a routing
\* failure leaves that failure (not BadRequest), and a websocket-capable rule
\* leaves no failure.
C11_RoutingIsDeferred ==
    (/\ returned.call = "WebsocketContext"
     /\ returned.match.raises \in {None} \cup RoutingFailures)
    => LET ws == request_websocket["websocket"]
           m == returned.match
       IN /\ returned.raised = None
          /\ (m.raises = None /\ m.url_rule = "index")
             => ws.routing_exception = "BadRequest"
          /\ (m.raises = None /\ m.url_rule = "chat")
             => ws.routing_exception = None
          /\ m.raises # None => ws.routing_exception = m.raises

C11_Witness ==
    /\ returned.call = "WebsocketContext"
    /\ returned.match.raises = None /\ returned.match.url_rule = "index"
    /\ request_websocket["websocket"].routing_exception = "BadRequest"
    /\ request_websocket["websocket"].url_rule = "index"

\* The RequestContext or WebsocketContext of block j of task t has been
\* entered: its __aenter__ has returned.
Entered(t, j) ==
    /\ j \in 1 .. Depth(t)
    /\ scope[t][j].kind \in {"request", "websocket"}
    /\ j < Depth(t) \/ pc[t] \notin {"appcontext_pushed", "open_session"}

\* C12: once a RequestContext or WebsocketContext has been entered its session
\* is not null: it is what open_session returned, or the null session when
\* open_session returned None.
C12_SessionIsNeverNull ==
    \A t \in Tasks : \A j \in 1 .. Depth(t) :
        Entered(t, j)
        => /\ scope[t][j].session # None
           /\ scope[t][j].opened \in {None, "session"}
           /\ scope[t][j].opened = "session" => scope[t][j].session = "session"
           /\ scope[t][j].opened = None => scope[t][j].session = "null_session"

C12_Witness ==
    \E t \in Tasks :
        /\ Entered(t, 1) /\ pc[t] = "body" /\ Depth(t) = 1
        /\ scope[t][1].kind = "websocket"
        /\ scope[t][1].opened = None
        /\ scope[t][1].session = "null_session"

\* C13: every entry of a RequestContext or WebsocketContext has sent one
\* app-context-pushed notification, the entry that found an AppContext active
\* too.
C13_EveryEntryNotifies ==
    \A t \in Tasks : \A j \in 1 .. Depth(t) :
        Entered(t, j) => scope[t][j].notified = 1

\* C14: g.pop(name) on an absent key raises KeyError (the KeyNotFound of the
\* specification) and leaves the store as it was; g.pop(name, default) on an
\* absent key returns the default and leaves the store as it was; pop on a
\* present key returns the stored value and removes that key and no other;
\* setdefault on a present key leaves the store as it was.
C14_PopAndSetdefault ==
    LET d0 == returned.before
        d1 == g_dict[TheG]
        n == returned.name
    IN /\ (returned.call = "pop" /\ n \notin DOMAIN d0)
          => /\ d1 = d0
             /\ IF returned.default = sentinel
                THEN returned.raised = "KeyError"
                ELSE returned.raised = None
                     /\ returned.value = returned.default
       /\ (returned.call = "pop" /\ n \in DOMAIN d0)
          => /\ returned.raised = None
             /\ returned.value = d0[n]
             /\ DOMAIN d1 = DOMAIN d0 \ {n}
             /\ \A k \in DOMAIN d1 : d1[k] = d0[k]
       /\ (returned.call = "setdefault" /\ n \in DOMAIN d0)
          => /\ d1 = d0
             /\ returned.raised = None

C14_Witness ==
    /\ returned.call = "pop" /\ returned.name = "user"
    /\ returned.default = None
    /\ DOMAIN returned.before = {"db"}
    /\ returned.raised = None /\ returned.value = None
    /\ g_dict[TheG] = returned.before

\* What the __aexit__ of a RequestContext or WebsocketContext did, in order.
ExitSteps(fr) ==
    SubSeq(fr.steps, IF fr.created THEN 4 ELSE 3, Len(fr.steps))

\* C15: the exit of a RequestContext (no hook failing) calls the
\* request-teardown hook with the error of the body, then pops the request
\* stack, then pops the AppContext with the same error, and the app teardown
\* hook runs only if the count of the AppContext that was active has come
\* down to zero.
C15_RequestExitOrder ==
    \A t \in Tasks :
        (/\ Exited(t, "request") /\ HooksOk(last[t])
         /\ last[t].pop_stack0 # <<>>)
        => LET fr == last[t]
               zero == Count(t, LocalStack_top(fr.pop_stack0)) <= 0
           IN /\ fr.td_req = <<fr.exc>>
              /\ ExitSteps(fr) =
                    <<"do_teardown_request", "request_pop", "app_pop">>
                    \o (IF zero THEN <<"do_teardown_appcontext">> ELSE <<>>)
              /\ fr.pop_td = 1 => fr.td_app[Len(fr.td_app)] = fr.exc

\* C16: entering a RequestContext or WebsocketContext pushes a new AppContext
\* exactly when the app stack of the task is empty, then opens the session,
\* then pushes the context on its own stack: until the session is set the
\* context is not on its stack, and when it is pushed an AppContext is active.
C16_EnterOrder ==
    \A t \in Tasks : \A j \in 1 .. Depth(t) :
        LET fr == scope[t][j]
            own == IF fr.kind = "request" THEN request_ctx_stack[t]
                   ELSE websocket_ctx_stack[t]
            pre_own == IF fr.kind = "request" THEN fr.pre_req ELSE fr.pre_ws
        IN fr.kind \in {"request", "websocket"}
           => /\ Entered(t, j)
                 => /\ SubSeq(fr.steps, 1, IF fr.pre_app = <<>> THEN 3 ELSE 2)
                        = (IF fr.pre_app = <<>> THEN <<"app_push">> ELSE <<>>)
                          \o <<"open_session", "push">>
                    /\ fr.app_at_push # <<>>
                    /\ fr.app_at_push =
                          IF fr.pre_app = <<>> THEN <<fr.id>> ELSE fr.pre_app
                    /\ fr.session # None
              /\ ~Entered(t, j)
                 => /\ own = pre_own
                    /\ fr.session = None
                    /\ app_ctx_stack[t] =
                          IF fr.pre_app = <<>> THEN <<fr.id>> ELSE fr.pre_app

C16_Witness ==
    \E t \in Tasks :
        /\ Depth(t) = 2 /\ pc[t] = "body"
        /\ scope[t][1].kind = "request" /\ scope[t][2].kind = "websocket"
        /\ scope[t][1].steps = <<"app_push", "open_session", "push">>
        /\ scope[t][2].steps = <<"open_session", "push">>
        /\ request_ctx_stack[t] = <<1>> /\ websocket_ctx_stack[t] = <<2>>

\* C17: the exit of a WebsocketContext never calls the request-teardown hook;
\* it pops the websocket stack and then the AppContext; and a WebsocketContext
\* entered with the app and websocket stacks empty, and exited with nothing
\* entered in between, leaves both empty.
C17_WebsocketExit ==
    \A t \in Tasks :
        Exited(t, "websocket")
        => LET fr == last[t]
           IN /\ fr.td_req = <<>>
              /\ \A k \in 1 .. Len(fr.steps) : fr.steps[k] # "do_teardown_request"
              /\ SubSeq(ExitSteps(fr), 1, 2) = <<"websocket_pop", "app_pop">>
              /\ websocket_ctx_stack[t] = fr.pre_ws
              /\ (fr.pre_app = <<>> /\ fr.pre_ws = <<>> /\ fr.nested = 0)
                 => /\ websocket_ctx_stack[t] = <<>>
                    /\ app_ctx_stack[t] = <<>>

C17_Witness ==
    \E t \in Tasks :
        /\ Exited(t, "websocket")
        /\ last[t].pre_app = <<>> /\ last[t].pre_ws = <<>>
        /\ last[t].nested = 0 /\ last[t].raised = None
        /\ ExitSteps(last[t]) =
               <<"websocket_pop", "app_pop", "do_teardown_appcontext">>
        /\ websocket_ctx_stack[t] = <<>> /\ app_ctx_stack[t] = <<>>

\* Nothing has failed in task t so far: no body, hook or enter has raised.
Clean(t) ==
    /\ error[t] = None
    /\ \A j \in 1 .. Depth(t) : scope[t][j].exc = None /\ HooksOk(scope[t][j])
    /\ last[t] # NoFrame => last[t].raised = None /\ HooksOk(last[t])

\* C18: while nothing has failed in a task, a RequestContext or
\* WebsocketContext on its stacks means an AppContext on its app stack:
\* has_request_context() or has_websocket_context() implies
\* has_app_context().
C18_RequestImpliesApp ==
    \A t \in Tasks :
        (Clean(t) /\ (has_request_context(t) \/ has_websocket_context(t)))
        => has_app_context(t)

\* C19: with bodies and hooks not failing, the exit of a block leaves the
\* app, request and websocket stacks of the task as they were just before the
\* block was entered, and pops no empty stack.
C19_ExitRestoresTheStacks ==
    \A t \in Tasks :
        (/\ pc[t] = "exited" /\ last[t].kind # None
         /\ last[t].exc = None /\ HooksOk(last[t]))
        => /\ app_ctx_stack[t] = last[t].pre_app
           /\ request_ctx_stack[t] = last[t].pre_req
           /\ websocket_ctx_stack[t] = last[t].pre_ws
           /\ last[t].raised # "EmptyStackError"

\* C20: when the enter of a RequestContext or WebsocketContext fails (the
\* pushed notification or open_session raises), the app, request and
\* websocket stacks of the task are as they were before the enter.
C20_FailedEnterLeavesNothing ==
    \A t \in Tasks :
        (pc[t] = "enter_failed" /\ last[t].kind \in {"request", "websocket"})
        => /\ app_ctx_stack[t] = last[t].pre_app
           /\ request_ctx_stack[t] = last[t].pre_req
           /\ websocket_ctx_stack[t] = last[t].pre_ws

====
